---- MODULE Spec2Model ----
(***************************************************************************)
(* Model of the distributed rollout-execution engine:                      *)
(*   RayExecutor           src/yarl/execution/ray/ray_executor.py          *)
(*   SyncBatchExecutor     src/rlgraph/execution/ray/sync_batch_executor.py*)
(* The task pool (RayTaskPool, rlgraph.execution.ray.ray_util) and the     *)
(* remote workers are collaborators whose code is not part of the source   *)
(* tree; the pool is modelled from section 4.2 of the specification, the   *)
(* workers as an environment that completes or fails outstanding tasks.    *)
(* SyncBatchExecutor derives from RayExecutor; the revision of that class  *)
(* in the source tree is the yarl one, whose methods are modelled here.    *)
(* The passing of constructor arguments to the base class is not modelled: *)
(* construction is ray_init followed by create_remote_workers.             *)
(*                                                                         *)
(* The control loop is single threaded: execute_workload blocks in         *)
(* get_completed, so it is split at its loop tests (pc), and the client    *)
(* calls the other operations only while no execute_workload is active.    *)
(***************************************************************************)
EXTENDS Integers, Sequences, FiniteSets

(* ------------------------------ bounds --------------------------------- *)
\* Largest number of sample workers (num_sample_workers) in Spec.
MaxWorkers == 2
\* Largest sample_count a completed sampling task reports in Spec.
MaxCount == 1
\* Largest num_timesteps / report_interval of a workload request in Spec.
MaxTimesteps == 1
MaxInterval == 1
\* Cap on the iterations one execute_workload call records (the outer loop of
\* the code is unbounded).
MaxIterations == 2
\* Differences of two readings of time.monotonic(): none (below the clock's
\* resolution) or some.
ElapsedVals == {0, 3}
\* Largest number of workers in SpecAggregate.
MaxStatWorkers == 2
\* Largest number of handles registered by create_remote_workers calls in
\* SpecCluster.
MaxRegistered == 3

(* -------------------------- program constants -------------------------- *)
\* Number of targets of the tuple assignment
\*   worker_steps_executed, update_steps = self._execute_step()
UnpackTargets == 2
\* The value substituted for a total_time of 0:  (...) or 1e-10.  Durations
\* are counted in units of 1e-10 s.
Epsilon == 1

(* The scenario of the deterministic-timing test double of section 8.      *)
TestDouble ==
    [workers |-> 4, sample_count |-> 25, num_timesteps |-> 1000, report_interval |-> 100]

VARIABLES
    pc,                  \* position of the control thread
    num_sample_workers,  \* executor_spec["num_sample_workers"] (0 before __init__)
    ray_env_sample_workers, \* list of worker handles (<<>> before setup)
    worker_ids,          \* handle -> label index i of "worker_i"
    ctor_ok,             \* handle -> what get_constructor_success returns
    metrics,             \* handle -> WorkerStatisticsSnapshot
    cluster_spec,        \* the dict the executor was constructed with
    warned,              \* ray_init has logged its local-redis warning
    ray_args,            \* the keyword arguments ray.init was called with
    probed,              \* test_worker_init has run and passed
    pool,                \* env_sample_tasks: handle -> outstanding task
    returned_since_add,  \* handle -> times get_completed returned it since its last add_task
    ever_submitted,      \* some sampling task has been submitted
    num_timesteps, report_interval,          \* workload request
    timesteps_executed, iteration_step, iteration_updates,
    iteration_times, iteration_time_steps, iteration_update_steps,
    rounds,              \* _execute_step calls made by the current execute_workload
    env_sample_iteration_throughputs, update_iteration_throughputs,
    \* What the client's last call gave back (forgotten at its next call):
    step_result,         \* the tuple _execute_step returned (<<>>: nothing)
    error,               \* the exception that ended the call ("none")
    outcome,             \* how execute_workload ended, and what it returned
    late_counted,        \* a scheduling step of execute_workload counted a late result
    aggregate,           \* the result of get_aggregate_worker_results
    waiting_on,          \* the worker whose statistics ray.get waits for (0: none)
    worker_result        \* the last result_by_worker call: its argument and result

localvars == <<num_timesteps, report_interval, timesteps_executed, iteration_step,
               iteration_updates, iteration_times, iteration_time_steps,
               iteration_update_steps, rounds>>
attrvars == <<env_sample_iteration_throughputs, update_iteration_throughputs>>
wlvars == <<localvars, attrvars>>
rayvars == <<cluster_spec, warned, ray_args>>
clustervars == <<num_sample_workers, ray_env_sample_workers, worker_ids, ctor_ok,
                 metrics, rayvars>>
poolvars == <<pool, returned_since_add, ever_submitted>>
resvars == <<step_result, error, outcome, late_counted, aggregate, waiting_on,
             worker_result>>
vars == <<pc, clustervars, probed, poolvars, wlvars, resvars>>

(* ------------------------------- helpers ------------------------------- *)
Range(s) == {s[i] : i \in DOMAIN s}

RECURSIVE SeqSum(_)
SeqSum(s) == IF s = <<>> THEN 0 ELSE s[1] + SeqSum(Tail(s))

RECURSIVE SeqMin(_)
SeqMin(s) == IF Len(s) = 1 THEN s[1]
             ELSE LET m == SeqMin(Tail(s)) IN IF s[1] <= m THEN s[1] ELSE m

RECURSIVE SeqMax(_)
SeqMax(s) == IF Len(s) = 1 THEN s[1]
             ELSE LET m == SeqMax(Tail(s)) IN IF s[1] >= m THEN s[1] ELSE m

\* np.mean of a non-empty list, kept exact as the fraction sum / length.
NpMean(s) == [num |-> SeqSum(s), den |-> Len(s)]

Workers == Range(ray_env_sample_workers)

(* ------------------------------ task pool ------------------------------ *)
\* A pool entry.  status: "none" (no outstanding task), "pending", "done",
\* "failed" (the remote call raised).  count: the sample_count of a done task.
\* counted: times its count has been added to a step counter.  late: it
\* was outstanding when execute_workload reached its target, so its result
\* arrives after the executor has left the Running loop.
NoTask == [status |-> "none", count |-> 0, counted |-> 0, late |-> FALSE]
PendingTask == [status |-> "pending", count |-> 0, counted |-> 0, late |-> FALSE]

\* Workers whose outstanding operation has finished.
Completed(p) == {w \in DOMAIN p : p[w].status \in {"done", "failed"}}

\* get_completed blocks until at least one outstanding operation has
\* finished; with nothing outstanding there is nothing to wait for.
GetCompletedReady(p) ==
    \/ Completed(p) # {}
    \/ \A w \in DOMAIN p : p[w].status = "none"

\* The pool once get_completed has yielded every finished entry.
Drained(p) == [w \in DOMAIN p |-> IF w \in Completed(p) THEN NoTask ELSE p[w]]

\* add_task fails (DuplicateTaskError) for a worker with an outstanding task.
AddTaskFails(p, w) == p[w].status # "none"

(* --------------------------- _execute_step ----------------------------- *)
RECURSIVE SetSum(_, _)
SetSum(S, p) == IF S = {} THEN 0
                ELSE LET w == CHOOSE x \in S : TRUE
                     IN p[w].count + SetSum(S \ {w}, p)

\* Mutant of NewTask: the finished future is registered again.
NewTask_Reused(old) == old
\* Line 127: ray_worker.execute_and_get_with_count.remote() is a fresh
\* remote call, whatever the finished task was.
NewTask(old) == PendingTask

\* Mutant of ResubmitSet: a new task for every worker of the executor.
ResubmitSet_All(p) == DOMAIN p
\* Lines 118-127: add_task is called for the workers of the completed list.
ResubmitSet(p) == Completed(p)

\* Lines 112, 118-121: env_steps is the sum of the completed tasks' sizes.
StepEnvSteps(p) == SetSum(Completed(p), p)

\* Line 113: update_steps stays 0 (no update logic).
StepUpdateSteps == 0

\* Line 129: return env_steps, update_steps, 0, 0
StepReturn(p) == <<StepEnvSteps(p), StepUpdateSteps, 0, 0>>

\* The finished task once its size has been added to env_steps (line 121).
CountedTask(t) == [t EXCEPT !.counted = @ + 1]

\* One call of SyncBatchExecutor._execute_step on pool p (lines 111-129).
\* Line 116 drains the pool; ray.get at line 117 raises when a completed
\* task failed on the worker side, before anything is counted or re-submitted.
ExecuteStep(p) ==
    LET done == Completed(p)
        drained == Drained(p)
    IN  IF \E w \in done : p[w].status = "failed"
        THEN [raised |-> "RemoteTaskError", pool |-> drained, result |-> <<>>,
              resubmitted |-> {}]
        ELSE IF \E w \in ResubmitSet(p) : w \notin done /\ AddTaskFails(drained, w)
        THEN [raised |-> "DuplicateTaskError", pool |-> drained, result |-> <<>>,
              resubmitted |-> {}]
        ELSE [raised |-> "none",
              pool |-> [w \in DOMAIN p |->
                          IF w \in ResubmitSet(p) THEN NewTask(CountedTask(p[w]))
                          ELSE drained[w]],
              result |-> StepReturn(p),
              resubmitted |-> ResubmitSet(p)]

\* returned_since_add after a step: every completed worker was returned once
\* more; add_task resets the count.
StepReturned(p, rsa) ==
    LET r == ExecuteStep(p)
    IN  [w \in DOMAIN p |->
            IF w \in r.resubmitted THEN 0
            ELSE IF w \in Completed(p) THEN rsa[w] + 1
            ELSE rsa[w]]

(* ------------------------ execute_workload pieces ----------------------- *)
\* RayExecutor.init_tasks: pass.  SyncBatchExecutor does not override it.
InitTasks(p) == p

\* worker_steps_executed, update_steps = self._execute_step(): the tuple
\* assignment succeeds only when the result has as many fields as targets.
UnpackOk(result) == Len(result) = UnpackTargets

\* Mutant of Throughputs: the end-to-end rate is appended as well (the
\* append of line 166, left commented out in the code).
Throughputs_WithTotal(steps, times) ==
    [i \in 1..Len(times) + 1 |->
        IF i <= Len(times) THEN [num |-> steps[i], den |-> times[i]]
        ELSE [num |-> SeqSum(steps), den |-> SeqSum(times)]]
\* Lines 175-178: steps / it_time for every recorded iteration, kept exact as
\* the pair numerator, denominator.
Throughputs(steps, times) ==
    [i \in 1..Len(times) |-> [num |-> steps[i], den |-> times[i]]]
DividesByZero(times) == \E i \in DOMAIN times : times[i] = 0
\* The iterations the loop of lines 175-178 gets through before it divides
\* by an it_time of 0.
RECURSIVE LeadingNonZero(_)
LeadingNonZero(times) ==
    IF times = <<>> \/ Head(times) = 0 THEN 0 ELSE 1 + LeadingNonZero(Tail(times))

\* Mutant of OuterLoopContinues: the loop is left one step early.
OuterLoopContinues_OneShort(executed, target) == executed < target - 1
\* Line 142: while timesteps_executed < num_timesteps
OuterLoopContinues(executed, target) == executed < target

\* Mutant of InnerLoopContinues: the interval test made inclusive.
InnerLoopContinues_Inclusive(step, interval) == step <= interval
\* Line 148: while iteration_step < report_interval
InnerLoopContinues(step, interval) == step < interval

\* Line 168: (time.monotonic() - start) or 1e-10
TotalTime(elapsed) == IF elapsed = 0 THEN Epsilon ELSE elapsed

(* -------------------- get_aggregate_worker_results ---------------------- *)
\* Lines 298-320: the lists the loop over ray_env_sample_workers builds.
Column(ws, m, field) == [i \in 1..Len(ws) |-> m[ws[i]][field]]

\* Mutant of MeanReward: the per-worker means weighted by episode count.
MeanReward_Weighted(ws, m) ==
    [num |-> SeqSum([i \in 1..Len(ws) |->
                       m[ws[i]].mean_episode_reward * m[ws[i]].episodes_executed]),
     den |-> SeqSum(Column(ws, m, "episodes_executed"))]
\* Line 325: np.mean(mean_rewards)
MeanReward(ws, m) == NpMean(Column(ws, m, "mean_episode_reward"))

\* Lines 322-334.
GetAggregateWorkerResults(ws, m) ==
    [min_reward |-> SeqMin(Column(ws, m, "min_episode_reward")),
     max_reward |-> SeqMax(Column(ws, m, "max_episode_reward")),
     mean_reward |-> MeanReward(ws, m),
     mean_final_reward |-> NpMean(Column(ws, m, "final_episode_reward")),
     episodes_executed |-> SeqSum(Column(ws, m, "episodes_executed")),
     steps_executed |-> SeqSum(Column(ws, m, "worker_steps")),
     mean_worker_op_throughput |-> NpMean(Column(ws, m, "mean_worker_ops_per_second")),
     min_worker_op_throughput |-> SeqMin(Column(ws, m, "mean_worker_ops_per_second")),
     max_worker_op_throughput |-> SeqMax(Column(ws, m, "mean_worker_ops_per_second")),
     mean_worker_env_frame_throughput |->
         NpMean(Column(ws, m, "mean_worker_env_frames_per_second"))]

NoAggregate == [min_reward |-> 0, max_reward |-> 0,
                mean_reward |-> [num |-> 0, den |-> 0],
                mean_final_reward |-> [num |-> 0, den |-> 0],
                episodes_executed |-> 0, steps_executed |-> 0,
                mean_worker_op_throughput |-> [num |-> 0, den |-> 0],
                min_worker_op_throughput |-> 0, max_worker_op_throughput |-> 0,
                mean_worker_env_frame_throughput |-> [num |-> 0, den |-> 0]]

\* The snapshot of a worker that has run one episode of one step.
IdleSnapshot ==
    [min_episode_reward |-> 0, max_episode_reward |-> 0, mean_episode_reward |-> 0,
     final_episode_reward |-> 0, episodes_executed |-> 1, worker_steps |-> 1,
     mean_worker_ops_per_second |-> 1, mean_worker_env_frames_per_second |-> 1,
     episode_rewards |-> <<0>>, episode_timesteps |-> <<1>>]

\* Snapshots the workers of SpecAggregate may report: every combination of
\* the reward values, an episode count, and a slow or a fast worker.
RewardVals == {-1, 2}
EpisodeVals == {1, 3}
SpeedVals == {[steps |-> 2, ops |-> 1], [steps |-> 5, ops |-> 4]}
Snapshots ==
    {[min_episode_reward |-> a, max_episode_reward |-> b, mean_episode_reward |-> c,
      final_episode_reward |-> d, episodes_executed |-> e, worker_steps |-> v.steps,
      mean_worker_ops_per_second |-> v.ops,
      mean_worker_env_frames_per_second |-> v.ops] :
        a \in RewardVals, b \in RewardVals, c \in RewardVals, d \in RewardVals,
        e \in EpisodeVals, v \in SpeedVals}

(* ------------------------------- ray_init ------------------------------- *)
\* A cluster_spec dict, as the value under each of its possible keys; Absent
\* stands for a key the dict does not have.
Absent == "absent"
ClusterSpecs ==
    [redis_address : {Absent, "10.0.0.1:6379", "10.0.0.2:6379"},
     redis_host : {Absent, "10.0.0.1"},
     num_cpus : {Absent, "1", "2"},
     num_gpus : {Absent, "0", "1"}]
EmptyClusterSpec ==
    [redis_address |-> Absent, redis_host |-> Absent, num_cpus |-> Absent,
     num_gpus |-> Absent]

\* key in spec, and spec.get(key, None).
KeyIn(spec, key) == spec[key] # Absent
DictGet(spec, key) == IF KeyIn(spec, key) THEN spec[key] ELSE "None"

\* Line 72: if 'redis_host' not in self.cluster_spec: warning.
RayInitWarns(spec) == ~KeyIn(spec, "redis_host")

\* Lines 74-78: the arguments of ray.init.
RayInitArgs(spec) ==
    [started |-> TRUE, redis_address |-> DictGet(spec, "redis_address"),
     num_cpus |-> DictGet(spec, "num_cpus"), num_gpus |-> DictGet(spec, "num_gpus")]
NoRay == [started |-> FALSE, redis_address |-> "None", num_cpus |-> "None",
          num_gpus |-> "None"]

(* ---------------- result_by_worker, get_sample_worker_ids -------------- *)
\* worker_id=None, the default argument of result_by_worker.
None == 0

\* Line 289: list(self.worker_ids.keys()); the keys are the worker handles.
GetSampleWorkerIds(ids) == DOMAIN ids

\* self.ray_env_sample_workers is the list create_remote_workers built
\* (line 92: workers = []); only a dict has keys() and values().
WorkersContainer == "list"
HasKeysAndValues(container) == container = "dict"

\* What a result_by_worker(worker_id) call gave back.
WorkerResult(worker_id, rewards, timesteps) ==
    [called |-> TRUE, worker_id |-> worker_id, episode_rewards |-> rewards,
     episode_timesteps |-> timesteps]
NoWorkerResult ==
    [called |-> FALSE, worker_id |-> None, episode_rewards |-> <<>>,
     episode_timesteps |-> <<>>]

(* ------------------------------- states -------------------------------- *)
\* How an execute_workload call ended ("none": no such call, "running",
\* "raised", "returned") with the fields of the returned summary.
Outcome(kind, steps, nrounds, runtime) ==
    [kind |-> kind, timesteps_executed |-> steps, rounds |-> nrounds,
     runtime |-> runtime]
NoOutcome == Outcome("none", 0, 0, 0)

\* The executor object before its constructor has run.
Init ==
    /\ pc = "new"
    /\ num_sample_workers = 0
    /\ ray_env_sample_workers = <<>>
    /\ worker_ids = <<>>
    /\ ctor_ok = <<>>
    /\ metrics = <<>>
    /\ cluster_spec = EmptyClusterSpec
    /\ warned = FALSE
    /\ ray_args = NoRay
    /\ probed = FALSE
    /\ pool = <<>>
    /\ returned_since_add = <<>>
    /\ ever_submitted = FALSE
    /\ num_timesteps = 0 /\ report_interval = 0
    /\ timesteps_executed = 0 /\ iteration_step = 0 /\ iteration_updates = 0
    /\ iteration_times = <<>> /\ iteration_time_steps = <<>>
    /\ iteration_update_steps = <<>>
    /\ rounds = 0
    /\ env_sample_iteration_throughputs = <<>>
    /\ update_iteration_throughputs = <<>>
    /\ step_result = <<>>
    /\ error = "none"
    /\ outcome = NoOutcome
    /\ late_counted = FALSE
    /\ aggregate = NoAggregate
    /\ waiting_on = 0
    /\ worker_result = NoWorkerResult

\* create_remote_workers (lines 92-97): num_actors handles, the i-th labelled
\* "worker_i" (i from 0); the handle of the i-th actor is i + 1.
CreatedWorkers(num_actors) == [i \in 1..num_actors |-> i]
\* Mutant of CreatedLabels: the labels counted from 1.
CreatedLabels_FromOne(num_actors) == [w \in 1..num_actors |-> w]
CreatedLabels(num_actors) == [w \in 1..num_actors |-> w - 1]

\* SyncBatchExecutor.__init__ / setup_execution (lines 40-88): ray_init, then
\* create_remote_workers; the pool starts empty (line 62).  ok[w] is what the
\* remote constructor of worker w made of itself, m the workers' statistics.
Construct(n, ok, m) ==
    /\ pc = "new"
    /\ pc' = "idle"
    /\ ray_args = NoRay
    /\ warned' = RayInitWarns(cluster_spec)
    /\ ray_args' = RayInitArgs(cluster_spec)
    /\ num_sample_workers' = n
    /\ ray_env_sample_workers' = CreatedWorkers(num_sample_workers')
    /\ worker_ids' = CreatedLabels(num_sample_workers')
    /\ ctor_ok' = ok
    /\ metrics' = m
    /\ pool' = [w \in 1..n |-> NoTask]
    /\ returned_since_add' = [w \in 1..n |-> 0]
    /\ UNCHANGED <<cluster_spec, probed, ever_submitted, wlvars, resvars>>

Setup ==
    \E n \in 1..MaxWorkers :
        \E ok \in [1..n -> BOOLEAN] :
            Construct(n, ok, [w \in 1..n |-> IdleSnapshot])

\* A new call of the client: what the previous one gave back is forgotten.
\* err is the exception of the new call, res the tuple _execute_step returned.
ClientCall(err, res) ==
    /\ error' = err
    /\ step_result' = res
    /\ outcome' = NoOutcome
    /\ late_counted' = FALSE
    /\ worker_result' = NoWorkerResult

\* test_worker_init (lines 90-99): asserts the probe of every worker.
TestWorkerInit ==
    /\ pc = "idle"
    /\ IF \A w \in Workers : ctor_ok[w]
       THEN probed' = TRUE /\ ClientCall("none", <<>>)
       ELSE probed' = probed /\ ClientCall("AssertionError", <<>>)
    /\ UNCHANGED <<pc, clustervars, poolvars, wlvars, aggregate, waiting_on>>

\* result_by_worker (lines 252-279) called by the client: .keys() (line 264)
\* and .values() (line 270) are looked up on self.ray_env_sample_workers.
ResultByWorker(worker_id) ==
    /\ pc = "idle"
    /\ IF ~HasKeysAndValues(WorkersContainer)
       THEN /\ error' = "AttributeError"
            /\ worker_result' = WorkerResult(worker_id, <<>>, <<>>)
       ELSE IF worker_id # None /\ worker_id \notin Workers
       THEN /\ error' = "AssertionError"
            /\ worker_result' = WorkerResult(worker_id, <<>>, <<>>)
       ELSE LET ray_worker == IF worker_id # None THEN worker_id
                              ELSE ray_env_sample_workers[1]
            IN  /\ error' = "none"
                /\ worker_result' =
                       WorkerResult(worker_id, metrics[ray_worker].episode_rewards,
                                    metrics[ray_worker].episode_timesteps)
    /\ step_result' = <<>>
    /\ outcome' = NoOutcome
    /\ late_counted' = FALSE
    /\ UNCHANGED <<pc, clustervars, probed, poolvars, wlvars, aggregate, waiting_on>>

\* The client asks for the identifiers and looks one of them up, or calls
\* result_by_worker() without an argument.
ClientResultByWorker ==
    \E worker_id \in GetSampleWorkerIds(worker_ids) \cup {None} :
        ResultByWorker(worker_id)

\* The client submits a sampling task for w through the pool:
\*   env_sample_tasks.add_task(w, w.execute_and_get_with_count.remote())
\* keeping at most one outstanding task per worker.
AddTask(w) ==
    /\ pc = "idle"
    /\ ~AddTaskFails(pool, w)
    /\ pool' = [pool EXCEPT ![w] = PendingTask]
    /\ returned_since_add' = [returned_since_add EXCEPT ![w] = 0]
    /\ ever_submitted' = TRUE
    /\ ClientCall("none", <<>>)
    /\ UNCHANGED <<pc, clustervars, probed, wlvars, aggregate, waiting_on>>

ClientAddTask == \E w \in Workers : AddTask(w)

\* The remote worker finishes its rollout and announces sample_count c.
TaskComplete(w, c) ==
    /\ pool[w].status = "pending"
    /\ pool' = [pool EXCEPT ![w].status = "done", ![w].count = c]
    /\ UNCHANGED <<pc, clustervars, probed, returned_since_add, ever_submitted,
                   wlvars, resvars>>

WorkerCompletes == \E w \in Workers : \E c \in 0..MaxCount : TaskComplete(w, c)

\* The remote call raises on the worker side.
TaskFail(w) ==
    /\ pool[w].status = "pending"
    /\ pool' = [pool EXCEPT ![w].status = "failed"]
    /\ UNCHANGED <<pc, clustervars, probed, returned_since_add, ever_submitted,
                   wlvars, resvars>>

WorkerFails == \E w \in Workers : TaskFail(w)

\* The client calls _execute_step itself.
ExecuteStepDirect ==
    /\ pc = "idle"
    /\ GetCompletedReady(pool)
    /\ LET r == ExecuteStep(pool)
       IN  /\ pool' = r.pool
           /\ returned_since_add' = StepReturned(pool, returned_since_add)
           /\ ever_submitted' = (ever_submitted \/ r.resubmitted # {})
           /\ ClientCall(r.raised, r.result)
    /\ UNCHANGED <<pc, clustervars, probed, wlvars, aggregate, waiting_on>>

\* execute_workload, lines 122-140: accumulators reset, init_tasks called.
StartWorkload(nt, ri) ==
    /\ pc = "idle"
    /\ pc' = "outer"
    /\ env_sample_iteration_throughputs' = <<>>
    /\ update_iteration_throughputs' = <<>>
    /\ pool' = InitTasks(pool)
    /\ num_timesteps' = nt
    /\ report_interval' = ri
    /\ timesteps_executed' = 0
    /\ iteration_times' = <<>>
    /\ iteration_time_steps' = <<>>
    /\ iteration_update_steps' = <<>>
    /\ iteration_step' = 0 /\ iteration_updates' = 0
    /\ rounds' = 0
    /\ step_result' = <<>>
    /\ error' = "none"
    /\ outcome' = Outcome("running", 0, 0, 0)
    /\ late_counted' = FALSE
    /\ worker_result' = NoWorkerResult
    /\ UNCHANGED <<clustervars, probed, returned_since_add, ever_submitted,
                   aggregate, waiting_on>>

ExecuteWorkload ==
    \E nt \in 0..MaxTimesteps : \E ri \in 0..MaxInterval : StartWorkload(nt, ri)

\* The local variables of execute_workload are gone once the call has ended.
LocalsGone ==
    /\ num_timesteps' = 0 /\ report_interval' = 0
    /\ timesteps_executed' = 0 /\ iteration_step' = 0 /\ iteration_updates' = 0
    /\ iteration_times' = <<>> /\ iteration_time_steps' = <<>>
    /\ iteration_update_steps' = <<>>
    /\ rounds' = 0

\* Line 142: while timesteps_executed < num_timesteps; lines 143-145 when it
\* holds.  When it fails the executor leaves the Running loop: the tasks still
\* outstanding are the ones whose results arrive late.
LoopTest ==
    /\ pc = "outer"
    /\ IF OuterLoopContinues(timesteps_executed, num_timesteps)
       THEN /\ pc' = "inner"
            /\ iteration_step' = 0
            /\ iteration_updates' = 0
            /\ UNCHANGED pool
       ELSE /\ pc' = "summary"
            /\ pool' = [w \in DOMAIN pool |->
                          IF pool[w].status = "pending"
                          THEN [pool[w] EXCEPT !.late = TRUE] ELSE pool[w]]
            /\ UNCHANGED <<iteration_step, iteration_updates>>
    /\ UNCHANGED <<clustervars, probed, returned_since_add, ever_submitted,
                   num_timesteps, report_interval, timesteps_executed,
                   iteration_times, iteration_time_steps, iteration_update_steps,
                   rounds, attrvars, resvars>>

\* Lines 148-151: one pass of the inner loop.  _execute_step runs to its end
\* (or raises); then its result is unpacked into two names.
InnerStep ==
    /\ pc = "inner"
    /\ InnerLoopContinues(iteration_step, report_interval)
    /\ GetCompletedReady(pool)
    /\ LET r == ExecuteStep(pool)
       IN  /\ pool' = r.pool
           /\ returned_since_add' = StepReturned(pool, returned_since_add)
           /\ ever_submitted' = (ever_submitted \/ r.resubmitted # {})
           /\ step_result' = r.result
           /\ late_counted' =
                (late_counted \/ (r.raised = "none" /\
                    \E w \in Completed(pool) : pool[w].late /\ pool[w].count > 0))
           /\ IF r.raised # "none"
              THEN /\ error' = r.raised
                   /\ pc' = "idle" /\ outcome' = Outcome("raised", 0, rounds + 1, 0)
                   /\ LocalsGone
              ELSE IF UnpackOk(r.result)
              THEN /\ iteration_step' = iteration_step + r.result[1]
                   /\ iteration_updates' = iteration_updates + r.result[2]
                   /\ rounds' = rounds + 1
                   /\ UNCHANGED <<pc, error, outcome, num_timesteps, report_interval,
                                  timesteps_executed, iteration_times,
                                  iteration_time_steps, iteration_update_steps>>
              ELSE /\ error' = "ValueError"
                   /\ pc' = "idle" /\ outcome' = Outcome("raised", 0, rounds + 1, 0)
                   /\ LocalsGone
    /\ UNCHANGED <<clustervars, probed, attrvars, aggregate, waiting_on, worker_result>>

\* Lines 153-164: the inner loop is left and the iteration is recorded with
\* the elapsed time the clock measured.
IterationEnd ==
    /\ pc = "inner"
    /\ ~InnerLoopContinues(iteration_step, report_interval)
    /\ Len(iteration_times) < MaxIterations
    /\ \E iteration_end \in ElapsedVals :
          iteration_times' = Append(iteration_times, iteration_end)
    /\ timesteps_executed' = timesteps_executed + iteration_step
    /\ iteration_update_steps' = Append(iteration_update_steps, iteration_updates)
    /\ iteration_time_steps' = Append(iteration_time_steps, iteration_step)
    /\ pc' = "outer"
    /\ UNCHANGED <<clustervars, probed, poolvars, num_timesteps, report_interval,
                   iteration_step, iteration_updates, rounds, attrvars, resvars>>

\* Lines 168-205: the summary.  The throughput lists are filled by division
\* (ZeroDivisionError for an it_time of 0), the workers' statistics are
\* aggregated (line 180: the call waits in ray.get, line 312, for a worker
\* that does not answer), and np.min raises ValueError on an empty list
\* (line 189).
Summary ==
    /\ pc = "summary"
    /\ IF DividesByZero(iteration_times)
       THEN /\ error' = "ZeroDivisionError"
            /\ outcome' = Outcome("raised", 0, rounds, 0)
            /\ LET k == LeadingNonZero(iteration_times)
               IN  /\ env_sample_iteration_throughputs' =
                          Throughputs(SubSeq(iteration_time_steps, 1, k),
                                      SubSeq(iteration_times, 1, k))
                   /\ update_iteration_throughputs' =
                          Throughputs(SubSeq(iteration_update_steps, 1, k),
                                      SubSeq(iteration_times, 1, k))
            /\ pc' = "idle"
            /\ LocalsGone
            /\ UNCHANGED waiting_on
       ELSE /\ env_sample_iteration_throughputs' =
                   Throughputs(iteration_time_steps, iteration_times)
            /\ update_iteration_throughputs' =
                   Throughputs(iteration_update_steps, iteration_times)
            /\ \/ /\ IF iteration_times = <<>>
                     THEN /\ error' = "ValueError"
                          /\ outcome' = Outcome("raised", 0, rounds, 0)
                     ELSE /\ error' = "none"
                          /\ \E elapsed \in ElapsedVals :
                                outcome' = Outcome("returned", timesteps_executed,
                                                   rounds, TotalTime(elapsed))
                  /\ pc' = "idle"
                  /\ LocalsGone
                  /\ UNCHANGED waiting_on
               \/ /\ \E w \in Workers : waiting_on' = w
                  /\ pc' = "stats_wait"
                  /\ UNCHANGED <<localvars, error, outcome>>
    /\ UNCHANGED <<clustervars, probed, poolvars, step_result, late_counted,
                   aggregate, worker_result>>

\* The client calls get_aggregate_worker_results itself (lines 307-334): every
\* worker answers its get_workload_statistics query and the aggregate is
\* returned, or ray.get (line 312) waits for a worker that does not answer.
AggregateCall ==
    /\ pc = "idle"
    /\ \/ /\ aggregate' = GetAggregateWorkerResults(ray_env_sample_workers, metrics)
          /\ UNCHANGED <<pc, waiting_on>>
       \/ /\ \E w \in Workers : waiting_on' = w
          /\ pc' = "stats_wait"
          /\ UNCHANGED aggregate
    /\ ClientCall("none", <<>>)
    /\ UNCHANGED <<clustervars, probed, poolvars, wlvars>>

Next ==
    \/ Setup
    \/ TestWorkerInit
    \/ ClientAddTask
    \/ WorkerCompletes
    \/ WorkerFails
    \/ ExecuteStepDirect
    \/ ExecuteWorkload
    \/ LoopTest
    \/ InnerStep
    \/ IterationEnd
    \/ Summary

Spec == Init /\ [][Next]_vars

(* ------- result_by_worker and get_sample_worker_ids (SpecResults) ------- *)
\* The executor is set up, its client submits sampling tasks, the workers
\* complete them, and the client asks for single workers' results.
NextResults ==
    \/ Setup
    \/ TestWorkerInit
    \/ ClientAddTask
    \/ WorkerCompletes
    \/ ClientResultByWorker

SpecResults == Init /\ [][NextResults]_vars

(* ---------------- the test double of section 8 (SpecTestDouble) --------- *)
\* A set-up executor whose workers all constructed and answer every sampling
\* task with TestDouble.sample_count; the only workload requested is
\* {num_timesteps: 1000, report_interval: 100}.
InitTestDouble ==
    /\ pc = "idle"
    /\ num_sample_workers = TestDouble.workers
    /\ ray_env_sample_workers = CreatedWorkers(TestDouble.workers)
    /\ worker_ids = CreatedLabels(TestDouble.workers)
    /\ ctor_ok = [w \in 1..TestDouble.workers |-> TRUE]
    /\ metrics = [w \in 1..TestDouble.workers |-> IdleSnapshot]
    /\ cluster_spec = EmptyClusterSpec
    /\ warned = RayInitWarns(cluster_spec)
    /\ ray_args = RayInitArgs(cluster_spec)
    /\ probed = FALSE
    /\ pool = [w \in 1..TestDouble.workers |-> NoTask]
    /\ returned_since_add = [w \in 1..TestDouble.workers |-> 0]
    /\ ever_submitted = FALSE
    /\ num_timesteps = 0 /\ report_interval = 0
    /\ timesteps_executed = 0 /\ iteration_step = 0 /\ iteration_updates = 0
    /\ iteration_times = <<>> /\ iteration_time_steps = <<>>
    /\ iteration_update_steps = <<>>
    /\ rounds = 0
    /\ env_sample_iteration_throughputs = <<>>
    /\ update_iteration_throughputs = <<>>
    /\ step_result = <<>>
    /\ error = "none"
    /\ outcome = NoOutcome
    /\ late_counted = FALSE
    /\ aggregate = NoAggregate
    /\ waiting_on = 0
    /\ worker_result = NoWorkerResult

TestDoubleCompletes ==
    \E w \in Workers : TaskComplete(w, TestDouble.sample_count)

TestDoubleWorkload ==
    StartWorkload(TestDouble.num_timesteps, TestDouble.report_interval)

\* With this request the inner loop is entered and every call ends inside
\* InnerStep, so IterationEnd and Summary are never enabled here.
NextTestDouble ==
    \/ TestWorkerInit
    \/ ClientAddTask
    \/ TestDoubleCompletes
    \/ ExecuteStepDirect
    \/ TestDoubleWorkload
    \/ LoopTest
    \/ InnerStep

SpecTestDouble == InitTestDouble /\ [][NextTestDouble]_vars

(* ------------- get_aggregate_worker_results alone (SpecAggregate) ------- *)
\* A set-up, idle executor with any number of workers up to MaxStatWorkers,
\* reporting any combination of snapshots.
InitAggregate ==
    /\ pc = "idle"
    /\ \E n \in 1..MaxStatWorkers :
          /\ num_sample_workers = n
          /\ ray_env_sample_workers = CreatedWorkers(n)
          /\ worker_ids = CreatedLabels(n)
          /\ ctor_ok = [w \in 1..n |-> TRUE]
          /\ metrics \in [1..n -> Snapshots]
          /\ pool = [w \in 1..n |-> NoTask]
          /\ returned_since_add = [w \in 1..n |-> 0]
    /\ cluster_spec = EmptyClusterSpec
    /\ warned = RayInitWarns(cluster_spec)
    /\ ray_args = RayInitArgs(cluster_spec)
    /\ probed = FALSE
    /\ ever_submitted = FALSE
    /\ num_timesteps = 0 /\ report_interval = 0
    /\ timesteps_executed = 0 /\ iteration_step = 0 /\ iteration_updates = 0
    /\ iteration_times = <<>> /\ iteration_time_steps = <<>>
    /\ iteration_update_steps = <<>>
    /\ rounds = 0
    /\ env_sample_iteration_throughputs = <<>>
    /\ update_iteration_throughputs = <<>>
    /\ step_result = <<>>
    /\ error = "none"
    /\ outcome = NoOutcome
    /\ late_counted = FALSE
    /\ aggregate = NoAggregate
    /\ waiting_on = 0
    /\ worker_result = NoWorkerResult

NextAggregate == AggregateCall

SpecAggregate == InitAggregate /\ [][NextAggregate]_vars

(* ------- ray_init and create_remote_workers alone (SpecCluster) --------- *)
\* RayExecutor.__init__ (lines 41-61) with any cluster_spec.
InitCluster ==
    /\ pc = "new"
    /\ num_sample_workers = 0
    /\ ray_env_sample_workers = <<>>
    /\ worker_ids = <<>>
    /\ ctor_ok = <<>>
    /\ metrics = <<>>
    /\ cluster_spec \in ClusterSpecs
    /\ warned = FALSE
    /\ ray_args = NoRay
    /\ probed = FALSE
    /\ pool = <<>>
    /\ returned_since_add = <<>>
    /\ ever_submitted = FALSE
    /\ num_timesteps = 0 /\ report_interval = 0
    /\ timesteps_executed = 0 /\ iteration_step = 0 /\ iteration_updates = 0
    /\ iteration_times = <<>> /\ iteration_time_steps = <<>>
    /\ iteration_update_steps = <<>>
    /\ rounds = 0
    /\ env_sample_iteration_throughputs = <<>>
    /\ update_iteration_throughputs = <<>>
    /\ step_result = <<>>
    /\ error = "none"
    /\ outcome = NoOutcome
    /\ late_counted = FALSE
    /\ aggregate = NoAggregate
    /\ waiting_on = 0
    /\ worker_result = NoWorkerResult

\* ray_init (lines 63-78) called on the constructed executor.
RayInit ==
    /\ pc = "new"
    /\ ray_args = NoRay
    /\ warned' = RayInitWarns(cluster_spec)
    /\ ray_args' = RayInitArgs(cluster_spec)
    /\ UNCHANGED <<pc, num_sample_workers, ray_env_sample_workers, worker_ids,
                   ctor_ok, metrics, cluster_spec, probed, poolvars, wlvars,
                   resvars>>

\* create_remote_workers (lines 80-97) called on the executor, any number of
\* times: every call makes num_actors new actors, whose handles are the next
\* unused ones, and stores "worker_i" under the i-th of them, i counted from 0
\* in each call.  The list of new handles goes back to the caller.  Actors
\* can be created only once ray.init has run.
CreateRemoteWorkers(num_actors) ==
    /\ pc = "new"
    /\ ray_args.started
    /\ Len(worker_ids) + num_actors <= MaxRegistered
    /\ worker_ids' = worker_ids \o CreatedLabels(num_actors)
    /\ UNCHANGED <<pc, num_sample_workers, ray_env_sample_workers, ctor_ok, metrics,
                   rayvars, probed, poolvars, wlvars, resvars>>

ClientCreateRemoteWorkers ==
    \E num_actors \in 1..MaxWorkers : CreateRemoteWorkers(num_actors)

NextCluster ==
    \/ RayInit
    \/ ClientCreateRemoteWorkers

SpecCluster == InitCluster /\ [][NextCluster]_vars

(* ------------------------------- claims -------------------------------- *)
\* C1: with 4 workers returning sample_count 25 per task,
\* execute_workload({num_timesteps: 1000, report_interval: 100}) ends by
\* returning, after exactly 10 calls of _execute_step, with
\* timesteps_executed = 1000.
C1_TenRoundsReturn1000 ==
    outcome.kind \in {"raised", "returned"} =>
        /\ outcome.kind = "returned"
        /\ outcome.rounds = 10
        /\ outcome.timesteps_executed = 1000

\* C2: at the first call of _execute_step made by execute_workload on a
\* freshly set-up executor (nothing submitted before the call), every created
\* worker has an outstanding sampling task in the pool.
C2_InitialTasksOutstanding ==
    (pc = "inner" /\ rounds = 0 /\ iteration_step < report_interval
        /\ ~ever_submitted)
    => \A w \in Workers : pool[w].status # "none"

\* C3: _execute_step never calls add_task for a worker that still has an
\* outstanding task: no call, of the client or of execute_workload, ends in
\* the duplicate-task error, and a worker returned as completed and given a
\* new task holds exactly that one task.
C3_NoDuplicateTask ==
    /\ error # "DuplicateTaskError"
    /\ \A w \in Workers :
          pool[w].status # "none" => returned_since_add[w] = 0

C3_Witness ==
    /\ outcome.kind = "raised" /\ error = "ValueError"
    /\ Len(step_result) = 4 /\ step_result[1] > 0
    /\ Cardinality(Workers) = 2
    /\ \A w \in Workers : pool[w].status = "pending"

\* C4: no worker is returned twice by get_completed without an add_task for
\* it in between, and no task in the pool has had its sample count added to
\* a step counter already: each submitted task is counted at most once.
C4_NoDuplicateDelivery ==
    \A w \in Workers :
        /\ returned_since_add[w] <= 1
        /\ pool[w].counted = 0

C4_Witness ==
    /\ pc = "idle" /\ error = "none"
    /\ Len(step_result) = 4 /\ step_result[1] = 2
    /\ \A w \in Workers : pool[w].status = "pending" /\ returned_since_add[w] = 0

\* C5: the four-field result of _execute_step is of the arity its caller
\* accepts: execute_workload never fails on a result _execute_step returned.
C5_CallerAcceptsResult ==
    (outcome.kind = "raised" /\ Len(step_result) = 4) => error # "ValueError"

\* C6: setup aborts when a worker's constructor probe returns false, and a
\* sampling task is submitted only after every worker has been probed
\* successfully.
C6_ProbeBeforeSubmit ==
    /\ pc # "new" => \A w \in Workers : ctor_ok[w]
    /\ ever_submitted => probed

\* C7: a completed task that failed on the remote side does not abort the
\* scheduling step: the worker, once returned by the pool, is given a fresh
\* task, and no call ends in the remote task's error.
C7_RemoteFailureAbsorbed ==
    /\ error # "RemoteTaskError"
    /\ \A w \in Workers :
          ~(returned_since_add[w] > 0 /\ pool[w].status = "none")

\* C8: the duration recorded for an iteration, the divisor of its
\* throughputs, is strictly positive.
C8_PositiveDivisor ==
    \A i \in DOMAIN iteration_times : iteration_times[i] > 0

RECURSIVE FieldSum(_, _, _)
FieldSum(S, m, field) ==
    IF S = {} THEN 0
    ELSE LET w == CHOOSE x \in S : TRUE
         IN m[w][field] + FieldSum(S \ {w}, m, field)

IsMeanOf(frac, total, n) == frac.den > 0 /\ frac.num * n = total * frac.den

C10_AggregateReduction ==
    aggregate # NoAggregate =>
        LET n == Cardinality(Workers) IN
        /\ \E w \in Workers : aggregate.min_reward = metrics[w].min_episode_reward
        /\ \A w \in Workers : aggregate.min_reward <= metrics[w].min_episode_reward
        /\ \E w \in Workers : aggregate.max_reward = metrics[w].max_episode_reward
        /\ \A w \in Workers : aggregate.max_reward >= metrics[w].max_episode_reward
        /\ IsMeanOf(aggregate.mean_reward,
                    FieldSum(Workers, metrics, "mean_episode_reward"), n)
        /\ IsMeanOf(aggregate.mean_final_reward,
                    FieldSum(Workers, metrics, "final_episode_reward"), n)
        /\ aggregate.episodes_executed =
               FieldSum(Workers, metrics, "episodes_executed")
        /\ aggregate.steps_executed = FieldSum(Workers, metrics, "worker_steps")

C10_Witness ==
    /\ aggregate # NoAggregate
    /\ Cardinality(Workers) = 2
    /\ metrics[1].mean_episode_reward = -1 /\ metrics[1].episodes_executed = 3
    /\ metrics[2].mean_episode_reward = 2 /\ metrics[2].episodes_executed = 1
    /\ aggregate.mean_reward = [num |-> 1, den |-> 2]

\* The workers other than w, in registry order.
RECURSIVE Without(_, _)
Without(ws, w) ==
    IF ws = <<>> THEN <<>>
    ELSE IF Head(ws) = w THEN Without(Tail(ws), w)
    ELSE <<Head(ws)>> \o Without(Tail(ws), w)

\* C11: when one worker never answers its get_workload_statistics query,
\* get_aggregate_worker_results still completes: the call is over and its
\* aggregate is the reduction over the workers that answered.
C11_UnreachableWorkerExcluded ==
    (waiting_on # 0 /\ Len(ray_env_sample_workers) > 1) =>
        /\ pc = "idle"
        /\ aggregate =
              GetAggregateWorkerResults(Without(ray_env_sample_workers, waiting_on),
                                        metrics)

\* C12: ray_init logs its local-coordinator warning exactly when the cluster
\* spec has no redis_address key, the case in which ray.init is given no
\* address and starts a local coordinator.
C12_WarningIffNoAddress ==
    ray_args.started =>
        /\ warned <=> ~KeyIn(cluster_spec, "redis_address")
        /\ warned <=> (ray_args.redis_address = "None")

\* C13: create_remote_workers returns exactly the requested number of
\* distinct handles and registers the i-th of them (i from 0) under the label
\* "worker_i"; no later step of the executor changes or removes the label of
\* a registered handle.
C13_LabelsRegistered ==
    /\ [](pc # "new" =>
            /\ Len(ray_env_sample_workers) = num_sample_workers
            /\ Cardinality(Workers) = num_sample_workers
            /\ DOMAIN worker_ids = Workers
            /\ \A i \in 1..Len(ray_env_sample_workers) :
                   worker_ids[ray_env_sample_workers[i]] = i - 1)
    /\ [][\A w \in DOMAIN worker_ids :
             w \in DOMAIN worker_ids' /\ worker_ids'[w] = worker_ids[w]]_vars

\* Two workers registered as worker_0 and worker_1, after a later
\* execute_workload call has run and ended.
C13_Witness ==
    /\ pc = "idle"
    /\ num_sample_workers = 2
    /\ worker_ids[ray_env_sample_workers[1]] = 0
    /\ worker_ids[ray_env_sample_workers[2]] = 1
    /\ outcome.kind = "raised"

\* C14: after setup get_sample_worker_ids returns an identifier for every
\* registered worker, result_by_worker succeeds for each identifier it returns
\* and gives that worker's reward series, and result_by_worker() without an
\* argument gives the series of the first worker of the registry.
C14_ResultByWorkerSucceeds ==
    /\ pc # "new" => GetSampleWorkerIds(worker_ids) = Workers
    /\ worker_result.called =>
          /\ error = "none"
          /\ LET w == IF worker_result.worker_id = None
                      THEN ray_env_sample_workers[1]
                      ELSE worker_result.worker_id
             IN  /\ worker_result.episode_rewards = metrics[w].episode_rewards
                 /\ worker_result.episode_timesteps = metrics[w].episode_timesteps

IsPrefix(s, t) == Len(s) <= Len(t) /\ SubSeq(t, 1, Len(s)) = s

\* C15: execute_workload records an iteration exactly when the steps of the
\* current interval have reached report_interval: every recorded iteration has
\* at least report_interval steps and the recorded steps sum to
\* timesteps_executed; _execute_step is called only while the interval's
\* steps are below report_interval; a record is appended, one at a time, at
\* the end of the inner loop, and the earlier records stay as they are; the
\* returned timesteps_executed is the sum of the recorded steps.
C15_IterationRecords ==
    /\ [](/\ \A i \in DOMAIN iteration_time_steps :
                iteration_time_steps[i] >= report_interval
          /\ Len(iteration_times) = Len(iteration_time_steps)
          /\ Len(iteration_update_steps) = Len(iteration_time_steps)
          /\ timesteps_executed = SeqSum(iteration_time_steps))
    /\ [][/\ (pc = "inner" /\ (rounds' = rounds + 1 \/ outcome'.kind = "raised"))
               => iteration_step < report_interval
          /\ (pc \in {"outer", "inner", "summary"} /\ pc' # "idle") =>
                /\ IsPrefix(iteration_time_steps, iteration_time_steps')
                /\ IsPrefix(iteration_times, iteration_times')
                /\ IsPrefix(iteration_update_steps, iteration_update_steps')
                /\ Len(iteration_time_steps') <= Len(iteration_time_steps) + 1
          /\ (pc # "idle" /\ Len(iteration_time_steps') = Len(iteration_time_steps) + 1)
               => /\ pc = "inner" /\ iteration_step >= report_interval
                  /\ iteration_time_steps' = Append(iteration_time_steps, iteration_step)
          /\ outcome'.kind = "returned" =>
                outcome'.timesteps_executed = SeqSum(iteration_time_steps)]_vars

\* Two iterations have been recorded, each when its interval's steps had
\* reached report_interval.
C15_Witness ==
    /\ pc = "outer"
    /\ Len(iteration_time_steps) = 2
    /\ iteration_time_steps[2] >= report_interval
    /\ timesteps_executed = iteration_time_steps[1] + iteration_time_steps[2]

\* C16: execute_workload leaves its loop only when timesteps_executed has
\* reached num_timesteps, and returns only then; from the iteration boundary
\* at which the total has reached num_timesteps until the call ends, the
\* inner loop is not entered again and no completed task is taken out of the
\* pool.
C16_LoopLeftAtTarget ==
    /\ [](pc \in {"summary", "stats_wait"} => timesteps_executed >= num_timesteps)
    /\ [][/\ (pc # "idle" /\ outcome'.kind = "returned")
               => timesteps_executed >= num_timesteps
          /\ (pc \in {"outer", "summary", "stats_wait"}
                 /\ timesteps_executed >= num_timesteps)
               => /\ pc' # "inner"
                  /\ rounds' <= rounds
                  /\ returned_since_add' = returned_since_add
                  /\ \A w \in DOMAIN pool :
                        pool[w].status = "done" => pool'[w] = pool[w]]_vars

\* The loop has been left with the target reached while a worker's completed
\* result waits in the pool.
C16_Witness ==
    /\ pc = "summary"
    /\ timesteps_executed >= num_timesteps
    /\ \E w \in DOMAIN pool : pool[w].status = "done"

\* The workers that have a task outstanding in pool p.
Outstanding(p) == {w \in DOMAIN p : p[w].status # "none"}

\* C17: every call of _execute_step (by the client or by execute_workload)
\* leaves the set of workers with an outstanding task as it was: each worker
\* returned as completed gets one fresh pending task, and the task of every
\* other worker is unchanged.
C17_StepKeepsOutstandingSet ==
    [][(ExecuteStepDirect \/ InnerStep) =>
          /\ Outstanding(pool') = Outstanding(pool)
          /\ \A w \in Completed(pool) : pool'[w] = PendingTask
          /\ \A w \in DOMAIN pool \ Completed(pool) : pool'[w] = pool[w]]_vars

\* C18: every execute_workload call starts with timesteps_executed = 0, no
\* recorded iteration and empty throughput sequences, whatever an earlier
\* call left behind; and when a call ends, the sampling and the update
\* throughput sequence each hold exactly one entry per iteration that call
\* recorded, the i-th computed from the i-th iteration.
C18_AccumulatorsReset ==
    [][/\ (pc = "idle" /\ pc' = "outer") =>
             /\ timesteps_executed' = 0
             /\ iteration_times' = <<>> /\ iteration_time_steps' = <<>>
             /\ iteration_update_steps' = <<>>
             /\ env_sample_iteration_throughputs' = <<>>
             /\ update_iteration_throughputs' = <<>>
       /\ (pc \in {"inner", "summary"} /\ pc' \in {"idle", "stats_wait"}) =>
             /\ Len(env_sample_iteration_throughputs') = Len(iteration_times)
             /\ Len(update_iteration_throughputs') = Len(iteration_times)
             /\ \A i \in DOMAIN iteration_times :
                   /\ env_sample_iteration_throughputs'[i] =
                          [num |-> iteration_time_steps[i], den |-> iteration_times[i]]
                   /\ update_iteration_throughputs'[i] =
                          [num |-> iteration_update_steps[i],
                           den |-> iteration_times[i]]]_vars

\* A second call has just begun, from reset accumulators: a task that an
\* earlier call left outstanding when it left its loop is still in the pool.
C18_Witness ==
    /\ pc = "outer"
    /\ outcome.kind = "running"
    /\ \E w \in DOMAIN pool : pool[w].late
    /\ timesteps_executed = 0
    /\ iteration_times = <<>>
    /\ env_sample_iteration_throughputs = <<>>
    /\ update_iteration_throughputs = <<>>

\* C19: execute_workload cannot go round its outer loop without getting
\* nearer to num_timesteps: every iteration it completes adds at least one
\* step to timesteps_executed, so a call with num_timesteps > 0 ends after
\* at most num_timesteps iterations, whatever report_interval is.
C19_EveryIterationProgresses ==
    [][(pc = "inner" /\ pc' = "outer") =>
          timesteps_executed' > timesteps_executed]_vars

\* C20: whenever execute_workload computes its final summary at least one
\* iteration has been recorded, so that min, max and mean are taken over
\* non-empty throughput sequences.
C20_SummaryOverRecordedIterations ==
    pc = "summary" => Len(iteration_times) >= 1

\* C21: after any sequence of create_remote_workers calls on one executor,
\* two different registered handles never carry the same label in
\* worker_ids.
C21_DistinctLabels ==
    \A v \in DOMAIN worker_ids : \A w \in DOMAIN worker_ids :
        v # w => worker_ids[v] # worker_ids[w]

====
